---------------------------- MODULE Spec2Model ----------------------------
(***************************************************************************)
(* Model of app.py, the multi-platform GST sales analyzer.                 *)
(*                                                                         *)
(*  - extract_month (lines 13-54) and its three call sites (lines 79-92):  *)
(*    specification Spec.                                                  *)
(*  - the platform summary loop and the overall chart (lines 97-168):      *)
(*    specification SpecSummary.                                           *)
(*                                                                         *)
(* Text is a sequence of one-character strings, so that upper-casing,      *)
(* substring search, strptime and date parsing are computed, not assumed.  *)
(* A cell of a data frame is <<"na">> (missing), <<"num", n>> or           *)
(* <<"str", s>>.  A data frame is a function from the names of the columns *)
(* it has to columns (sequences of cells of one length): df.columns is     *)
(* DOMAIN df.  A Python exception is the value Raise; a value that was     *)
(* computed is Ok(v).  Python's None is the empty tuple, a present value v *)
(* is <<v>>.                                                               *)
(***************************************************************************)
EXTENDS Integers, Sequences, FiniteSets, TLC

VARIABLES
    pc,             \* position of the script run
    platform,       \* the upload slot being resolved: "amazon", "flipkart", "meesho"
    file_name,      \* uploaded_file.name
    df,             \* load_file(uploaded_file)
    month_num,      \* first component returned by extract_month
    month_name,     \* second component returned by extract_month
    colsRead,       \* the columns extract_month subscripted (df[col])
    platform_data,  \* line 77: platform -> data frame, insertion order Amazon, Flipkart, Meesho
    done,           \* the platforms the summary loop has been through
    sales_summary,  \* line 102
    tax_summary,    \* line 103
    summary,        \* per platform: what the loop body displayed
    charted         \* whether the overall chart (lines 151-168) was drawn

vars == <<pc, platform, file_name, df, month_num, month_name, colsRead,
          platform_data, done, sales_summary, tax_summary, summary, charted>>

-----------------------------------------------------------------------------
(* Bounds of the model *)

\* rows of a ledger whose cells are enumerated freely
MaxRows == 3

\* rows of a ledger whose cells follow a cyclic pattern (region ranking)
MaxPatternRows == 12

-----------------------------------------------------------------------------
(* Values *)

None == << >>

Some(v) == <<v>>

Raise == <<"raise">>

Ok(v) == <<"ok", v>>

NA == <<"na">>

Num(n) == <<"num", n>>

Str(s) == <<"str", s>>

IsNA(c) == c[1] = "na"

IsNum(c) == c[1] = "num"

IsStr(c) == c[1] = "str"

\* the characters the model's texts use, in ASCII order
Ascii ==
    << "-", ".", "/",
       "0", "1", "2", "3", "4", "5", "6", "7", "8", "9",
       "A", "B", "C", "D", "E", "F", "G", "H", "I", "J", "K", "L", "M",
       "N", "O", "P", "Q", "R", "S", "T", "U", "V", "W", "X", "Y", "Z",
       "_",
       "a", "b", "c", "d", "e", "f", "g", "h", "i", "j", "k", "l", "m",
       "n", "o", "p", "q", "r", "s", "t", "u", "v", "w", "x", "y", "z" >>

OrdTable ==
    ("-" :> 1) @@ ("." :> 2) @@ ("/" :> 3) @@ ("0" :> 4) @@ ("1" :> 5) @@ ("2" :> 6) @@
    ("3" :> 7) @@ ("4" :> 8) @@ ("5" :> 9) @@ ("6" :> 10) @@ ("7" :> 11) @@ ("8" :> 12) @@
    ("9" :> 13) @@ ("A" :> 14) @@ ("B" :> 15) @@ ("C" :> 16) @@ ("D" :> 17) @@ ("E" :> 18) @@
    ("F" :> 19) @@ ("G" :> 20) @@ ("H" :> 21) @@ ("I" :> 22) @@ ("J" :> 23) @@ ("K" :> 24) @@
    ("L" :> 25) @@ ("M" :> 26) @@ ("N" :> 27) @@ ("O" :> 28) @@ ("P" :> 29) @@ ("Q" :> 30) @@
    ("R" :> 31) @@ ("S" :> 32) @@ ("T" :> 33) @@ ("U" :> 34) @@ ("V" :> 35) @@ ("W" :> 36) @@
    ("X" :> 37) @@ ("Y" :> 38) @@ ("Z" :> 39) @@ ("_" :> 40) @@ ("a" :> 41) @@ ("b" :> 42) @@
    ("c" :> 43) @@ ("d" :> 44) @@ ("e" :> 45) @@ ("f" :> 46) @@ ("g" :> 47) @@ ("h" :> 48) @@
    ("i" :> 49) @@ ("j" :> 50) @@ ("k" :> 51) @@ ("l" :> 52) @@ ("m" :> 53) @@ ("n" :> 54) @@
    ("o" :> 55) @@ ("p" :> 56) @@ ("q" :> 57) @@ ("r" :> 58) @@ ("s" :> 59) @@ ("t" :> 60) @@
    ("u" :> 61) @@ ("v" :> 62) @@ ("w" :> 63) @@ ("x" :> 64) @@ ("y" :> 65) @@ ("z" :> 66)

Ord(c) == OrdTable[c]

IsDigit(c) == Ord(c) \in 4..13

DigitVal(c) == Ord(c) - 4

IsLowerCase(c) == Ord(c) \in 41..66

\* str.upper on one character: a lower-case letter moves to its capital
UpperChar(c) == IF IsLowerCase(c) THEN Ascii[Ord(c) - 27] ELSE c

\* str.upper
RECURSIVE Upper(_)
Upper(s) ==
    IF s = << >> THEN << >>
    ELSE <<UpperChar(Head(s))>> \o Upper(Tail(s))

\* Python's `p in s` on strings
IsSubstr(p, s) ==
    \E i \in 0..(Len(s) - Len(p)) : SubSeq(s, i + 1, i + Len(p)) = p

\* Python's < on strings (code point order)
RECURSIVE LexLess(_, _)
LexLess(a, b) ==
    IF b = << >> THEN FALSE
    ELSE IF a = << >> THEN TRUE
    ELSE IF Ord(Head(a)) # Ord(Head(b)) THEN Ord(Head(a)) < Ord(Head(b))
    ELSE LexLess(Tail(a), Tail(b))

\* the order pandas sorts the values of one column in (a column of one dtype)
CellLess(a, b) ==
    IF IsNum(a) /\ IsNum(b) THEN a[2] < b[2]
    ELSE IF IsStr(a) /\ IsStr(b) THEN LexLess(a[2], b[2])
    ELSE FALSE

-----------------------------------------------------------------------------
(* extract_month, lines 13-54 *)

\* line 14
months ==
    << <<"J","A","N">>, <<"F","E","B">>, <<"M","A","R">>, <<"A","P","R">>,
       <<"M","A","Y">>, <<"J","U","N">>, <<"J","U","L">>, <<"A","U","G">>,
       <<"S","E","P">>, <<"O","C","T">>, <<"N","O","V">>, <<"D","E","C">> >>

\* the C locale's abbreviated month names, which %b reads and writes
MonthAbbr ==
    << <<"J","a","n">>, <<"F","e","b">>, <<"M","a","r">>, <<"A","p","r">>,
       <<"M","a","y">>, <<"J","u","n">>, <<"J","u","l">>, <<"A","u","g">>,
       <<"S","e","p">>, <<"O","c","t">>, <<"N","o","v">>, <<"D","e","c">> >>

\* a mutated scan: the last code of the table that occurs, not the first
FilenameScanLast(name) ==
    LET upper == Upper(name)
        hits  == {i \in DOMAIN months : IsSubstr(months[i], upper)}
    IN  IF hits = {} THEN 0
        ELSE CHOOSE i \in hits : \A j \in hits : j <= i

\* lines 17-19: the index of the first code of the table that occurs in the
\* upper-cased file name, 0 when the loop ends without returning
FilenameScan(name) ==
    LET upper == Upper(name)
        hits  == {i \in DOMAIN months : IsSubstr(months[i], upper)}
    IN  IF hits = {} THEN 0
        ELSE CHOOSE i \in hits : \A j \in hits : i <= j

\* Python's list subscript months[k]: a negative k counts from the end, and
\* a k outside -12..11 raises IndexError
PyIndex(list, k) ==
    IF k >= 0 /\ k < Len(list) THEN Ok(list[k + 1])
    ELSE IF k < 0 /\ k >= -Len(list) THEN Ok(list[k + Len(list) + 1])
    ELSE Raise

\* Series.dropna
DropNA(col) == SelectSeq(col, LAMBDA c : ~IsNA(c))

Count(col, v) == Cardinality({i \in DOMAIN col : col[i] = v})

\* a mutated mode: the smallest value, whatever its frequency
ModeFirstSmallest(col) ==
    LET vals == {col[i] : i \in DOMAIN col}
    IN  IF vals = {} THEN Raise
        ELSE Ok(CHOOSE v \in vals : \A w \in vals : ~CellLess(w, v))

\* Series.mode().iloc[0]: the smallest of the most frequent values;
\* IndexError on a series with no value
ModeFirst(col) ==
    LET vals  == {col[i] : i \in DOMAIN col}
        modes == {v \in vals : \A w \in vals : Count(col, w) <= Count(col, v)}
    IN  IF vals = {} THEN Raise
        ELSE Ok(CHOOSE v \in modes : \A w \in modes : ~CellLess(w, v))

RECURSIVE DigitsValue(_)
DigitsValue(s) ==
    IF s = << >> THEN 0
    ELSE 10 * DigitsValue(SubSeq(s, 1, Len(s) - 1)) + DigitVal(s[Len(s)])

AllDigits(s) == s # << >> /\ \A i \in DOMAIN s : IsDigit(s[i])

\* Python's int(): a number as it is, a string of digits with an optional
\* minus sign parsed, ValueError on any other string
PyInt(c) ==
    IF IsNum(c) THEN Ok(c[2])
    ELSE IF AllDigits(c[2]) THEN Ok(DigitsValue(c[2]))
    ELSE IF c[2] # << >> /\ Head(c[2]) = "-" /\ AllDigits(Tail(c[2]))
         THEN Ok(-DigitsValue(Tail(c[2])))
    ELSE Raise

\* lines 26-27 with the handler of lines 28-29: what the try block returns,
\* Raise when any of its steps raised
MeeshoMonthNumber(col) ==
    LET m == ModeFirst(DropNA(col))
    IN  IF m = Raise THEN Raise
        ELSE LET n == PyInt(m[2])
             IN  IF n = Raise THEN Raise
                 ELSE LET label == PyIndex(months, n[2] - 1)
                      IN  IF label = Raise THEN Raise
                          ELSE Ok(<<n[2], label[2]>>)

\* datetime.strptime(s, "%b-%Y").month: an abbreviated month name in any
\* case, a dash, four digits of a year from 1 on, and nothing else
Strptime(s) ==
    IF /\ Len(s) = 8
       /\ \E m \in DOMAIN MonthAbbr : Upper(SubSeq(s, 1, 3)) = Upper(MonthAbbr[m])
       /\ s[4] = "-"
       /\ AllDigits(SubSeq(s, 5, 8))
       /\ DigitsValue(SubSeq(s, 5, 8)) >= 1
    THEN Ok(CHOOSE m \in DOMAIN MonthAbbr :
                Upper(SubSeq(s, 1, 3)) = Upper(MonthAbbr[m]))
    ELSE Raise

\* lines 40-42: the mode of the column's values as strings, parsed
FlipkartAmendedPeriod(col) ==
    LET m == ModeFirst(DropNA(col))
    IN  IF m = Raise THEN Raise
        ELSE LET dt == Strptime(m[2][2])
             IN  IF dt = Raise THEN Raise
                 ELSE Ok(<<dt[2], Upper(MonthAbbr[dt[2]])>>)

\* pd.to_datetime(..., errors='coerce') on one cell, then .month: the month
\* of a YYYY-MM-DD text, 0 (NaT) for a missing cell or any other text
ToDatetimeMonth(c) ==
    IF ~IsStr(c) THEN 0
    ELSE LET s == c[2]
         IN  IF /\ Len(s) = 10
                /\ s[5] = "-" /\ s[8] = "-"
                /\ AllDigits(SubSeq(s, 1, 4))
                /\ AllDigits(SubSeq(s, 6, 7))
                /\ AllDigits(SubSeq(s, 9, 10))
                /\ DigitsValue(SubSeq(s, 6, 7)) \in 1..12
                /\ DigitsValue(SubSeq(s, 9, 10)) \in 1..28
             THEN DigitsValue(SubSeq(s, 6, 7))
             ELSE 0

\* lines 48-50: dates.dt.month is an integer series only when no entry is
\* NaT; with a NaT it is a float series, its mode is a float, and
\* months[month_num - 1] raises TypeError.  mode() drops the NaN, and
\* iloc[0] raises IndexError when nothing is left.
DateColumnMonth(col) ==
    LET ms == SelectSeq([i \in DOMAIN col |-> Num(ToDatetimeMonth(col[i]))],
                        LAMBDA c : c[2] # 0)
        m  == ModeFirst(ms)
    IN  IF m = Raise THEN Raise
        ELSE IF Len(ms) < Len(col) THEN Raise
        ELSE Ok(<<m[2][2], months[m[2][2]]>>)

\* what extract_month returns, with the columns it subscripted
Ret(num, name, read) == [num |-> num, name |-> name, read |-> read]

\* lines 46-54
GenericDate(d, date_column, read) ==
    IF date_column # None
    THEN LET r == DateColumnMonth(d[date_column[1]])
         IN  IF r # Raise
             THEN Ret(Some(r[2][1]), Some(r[2][2]), read \cup {date_column[1]})
             ELSE Ret(None, None, read \cup {date_column[1]})
    ELSE Ret(None, None, read)

\* line 33
AmazonDateColumns == <<"Invoice Date", "Order Date", "Shipment Date">>

\* a mutated Meesho branch: a failed month_number falls through to order_date
MeeshoBranchFallThrough(d) ==
    IF "month_number" \in DOMAIN d
    THEN LET r == MeeshoMonthNumber(d["month_number"])
         IN  IF r # Raise
             THEN Ret(Some(r[2][1]), Some(r[2][2]), {"month_number"})
             ELSE IF "order_date" \in DOMAIN d
             THEN GenericDate(d, Some("order_date"), {"month_number"})
             ELSE Ret(None, None, {"month_number"})
    ELSE IF "order_date" \in DOMAIN d
    THEN GenericDate(d, Some("order_date"), {})
    ELSE GenericDate(d, None, {})

\* lines 23-31
MeeshoBranch(d) ==
    IF "month_number" \in DOMAIN d
    THEN LET r == MeeshoMonthNumber(d["month_number"])
         IN  IF r # Raise
             THEN Ret(Some(r[2][1]), Some(r[2][2]), {"month_number"})
             ELSE Ret(None, None, {"month_number"})
    ELSE IF "order_date" \in DOMAIN d
    THEN GenericDate(d, Some("order_date"), {})
    ELSE GenericDate(d, None, {})

\* lines 32-36
AmazonBranch(d) ==
    LET have == {i \in DOMAIN AmazonDateColumns : AmazonDateColumns[i] \in DOMAIN d}
    IN  IF have = {} THEN GenericDate(d, None, {})
        ELSE GenericDate(d,
                 Some(AmazonDateColumns[CHOOSE i \in have : \A j \in have : i <= j]),
                 {})

\* a mutated Flipkart branch: after a failed parse an Order Date column is
\* handed to the generic date handling
FlipkartBranchOrderDate(d) ==
    IF "Amended Period" \in DOMAIN d
    THEN LET r == FlipkartAmendedPeriod(d["Amended Period"])
         IN  IF r # Raise
             THEN Ret(Some(r[2][1]), Some(r[2][2]), {"Amended Period"})
             ELSE IF "Order Date" \in DOMAIN d
             THEN GenericDate(d, Some("Order Date"), {"Amended Period"})
             ELSE GenericDate(d, None, {"Amended Period"})
    ELSE GenericDate(d, None, {})

\* lines 37-44
FlipkartBranch(d) ==
    IF "Amended Period" \in DOMAIN d
    THEN LET r == FlipkartAmendedPeriod(d["Amended Period"])
         IN  IF r # Raise
             THEN Ret(Some(r[2][1]), Some(r[2][2]), {"Amended Period"})
             ELSE GenericDate(d, None, {"Amended Period"})
    ELSE GenericDate(d, None, {})

\* lines 13-54
extract_month(name, d, p) ==
    LET i == FilenameScan(name)
    IN  IF i # 0 THEN Ret(Some(i), Some(months[i]), {})
        ELSE IF p = "meesho" THEN MeeshoBranch(d)
        ELSE IF p = "amazon" THEN AmazonBranch(d)
        ELSE IF p = "flipkart" THEN FlipkartBranch(d)
        ELSE GenericDate(d, None, {})

-----------------------------------------------------------------------------
(* The uploads the resolver is run on *)

Absent == << <<"absent">> >>

AbsentOr(cols) == {Absent} \cup cols

\* the data frame with the columns of spec that are not Absent
Frame(spec) == [c \in {k \in DOMAIN spec : spec[k] # Absent} |-> spec[c]]

\* every column of n cells
FreeCols(n, cells) == [1..n -> cells]

\* the columns of n equal cells
ConstCols(n, cells) == {[i \in 1..n |-> c] : c \in cells}

FileNames ==
    { <<"g","s","t",".","c","s","v">>,
      <<"S","a","l","e","s","_","M","A","R","_","2","0","2","4",".","c","s","v">>,
      <<"d","e","c","_","j","a","n",".","c","s","v">>,
      <<"s","u","m","m","a","r","y",".","x","l","s","x">> }

MonthNumberCells == {NA, Num(-1), Num(0), Num(5), Num(7), Num(13)}

\* a month_number column that was read as text
MonthTextCells == {NA, Str(<<"7">>), Str(<<"x">>)}

DateCells ==
    { NA,
      Str(<<"2","0","2","4","-","0","3","-","0","5">>),
      Str(<<"2","0","2","4","-","0","7","-","1","5">>),
      Str(<<"T","B","D">>) }

PeriodCells ==
    { NA,
      Str(<<"A","p","r","-","2","0","2","5">>),
      Str(<<"J","U","L","-","2","0","2","4">>),
      Str(<<"A","p","r","i","l","-","2","0","2","5">>),
      Str(<<"S","e","p","-","2","5">>) }

MeeshoFrame(mn, od) == Frame([month_number |-> mn, order_date |-> od])

\* Meesho ledgers: month_number and order_date, one of them enumerated
\* freely and the other absent or constant
MeeshoUpload(d) ==
    \E n \in 0..MaxRows :
        \/ \E mn \in AbsentOr(FreeCols(n, MonthNumberCells)
                              \cup FreeCols(n, MonthTextCells)),
              od \in AbsentOr(ConstCols(n, DateCells)) :
                d = MeeshoFrame(mn, od)
        \/ \E mn \in AbsentOr(ConstCols(n, MonthNumberCells)),
              od \in AbsentOr(FreeCols(n, DateCells)) :
                d = MeeshoFrame(mn, od)

AmazonFrame(inv, ord, shp) ==
    Frame([c \in {"Invoice Date", "Order Date", "Shipment Date"} |->
             IF c = "Invoice Date" THEN inv
             ELSE IF c = "Order Date" THEN ord ELSE shp])

\* the cells of the two Amazon columns that are not enumerated freely
OtherDateCells ==
    { Str(<<"2","0","2","4","-","0","7","-","1","5">>), Str(<<"T","B","D">>) }

\* Amazon ledgers: the three date columns, one of them enumerated freely
AmazonUpload(d) ==
    \E n \in 0..MaxRows :
        \/ \E a \in AbsentOr(FreeCols(n, DateCells)),
              b \in AbsentOr(ConstCols(n, OtherDateCells)),
              c \in AbsentOr(ConstCols(n, OtherDateCells)) :
                d = AmazonFrame(a, b, c)
        \/ \E a \in AbsentOr(ConstCols(n, OtherDateCells)),
              b \in AbsentOr(FreeCols(n, DateCells)),
              c \in AbsentOr(ConstCols(n, OtherDateCells)) :
                d = AmazonFrame(a, b, c)
        \/ \E a \in AbsentOr(ConstCols(n, OtherDateCells)),
              b \in AbsentOr(ConstCols(n, OtherDateCells)),
              c \in AbsentOr(FreeCols(n, DateCells)) :
                d = AmazonFrame(a, b, c)

FlipkartFrame(ap, od) ==
    Frame([c \in {"Amended Period", "Order Date"} |->
             IF c = "Amended Period" THEN ap ELSE od])

\* Flipkart ledgers: Amended Period, and an Order Date column the resolver
\* has no use for
FlipkartUpload(d) ==
    \E n \in 0..MaxRows :
        \E ap \in AbsentOr(FreeCols(n, PeriodCells)),
           od \in AbsentOr(ConstCols(n, DateCells)) :
            d = FlipkartFrame(ap, od)

-----------------------------------------------------------------------------
(* The resolver run: one upload slot, lines 79-92 *)

SummaryIdle ==
    /\ platform_data = << >>
    /\ done = {}
    /\ sales_summary = << >>
    /\ tax_summary = << >>
    /\ summary = << >>
    /\ charted = FALSE

Init ==
    /\ pc = "uploaded"
    /\ \/ platform = "amazon" /\ AmazonUpload(df)
       \/ platform = "flipkart" /\ FlipkartUpload(df)
       \/ platform = "meesho" /\ MeeshoUpload(df)
    /\ file_name \in FileNames
    /\ month_num = None
    /\ month_name = None
    /\ colsRead = {}
    /\ SummaryIdle

\* the assignment of lines 81, 86, 91: the returned pair is kept
Returned(r) ==
    /\ month_num' = r.num
    /\ month_name' = r.name
    /\ colsRead' = r.read
    /\ pc' = "resolved"
    /\ UNCHANGED <<platform, file_name, df, platform_data, done,
                   sales_summary, tax_summary, summary, charted>>

\* lines 79-82
ResolveAmazon ==
    /\ pc = "uploaded"
    /\ platform = "amazon"
    /\ Returned(extract_month(file_name, df, "amazon"))

\* lines 84-87
ResolveFlipkart ==
    /\ pc = "uploaded"
    /\ platform = "flipkart"
    /\ Returned(extract_month(file_name, df, "flipkart"))

\* lines 89-92
ResolveMeesho ==
    /\ pc = "uploaded"
    /\ platform = "meesho"
    /\ Returned(extract_month(file_name, df, "meesho"))

Next == ResolveAmazon \/ ResolveFlipkart \/ ResolveMeesho

Spec == Init /\ [][Next]_vars

-----------------------------------------------------------------------------
(* The platform summary loop and the overall chart, lines 97-168 *)

\* line 139: state_sales.head(10)
TopN == 10

\* the keys of platform_data in insertion order, lines 79-92
PlatformOrder == <<"Amazon", "Flipkart", "Meesho">>

\* lines 109-121
ColumnMapping(p) ==
    IF p = "Amazon"
    THEN [total_col |-> "Invoice Amount",
          tax_col   |-> "Total Tax Amount",
          state_col |-> "Ship To State"]
    ELSE IF p = "Flipkart"
    THEN [total_col |-> "Aggregate Taxable Value Rs.",
          tax_col   |-> "IGST Amount Rs.",
          state_col |-> "Delivered State (PoS)"]
    ELSE [total_col |-> "total_invoice_value",
          tax_col   |-> "tax_amount",
          state_col |-> "end_customer_state_new"]

\* a mutated check: either column is enough
HasRequiredColumnsEither(d, m) ==
    m.total_col \in DOMAIN d \/ m.tax_col \in DOMAIN d

\* line 124
HasRequiredColumns(d, m) ==
    m.total_col \in DOMAIN d /\ m.tax_col \in DOMAIN d

RECURSIVE SumNums(_)
SumNums(col) ==
    IF col = << >> THEN 0
    ELSE (IF IsNum(Head(col)) THEN Head(col)[2] ELSE 0) + SumNums(Tail(col))

RECURSIVE Concat(_)
Concat(col) ==
    IF col = << >> THEN << >>
    ELSE Head(col)[2] \o Concat(Tail(col))

\* Series.sum(): a numeric column adds up with its missing cells skipped; a
\* column of strings only is concatenated, '+' being what sum applies; a
\* column that mixes strings with numbers or missing cells raises TypeError
SeriesSum(col) ==
    IF \A i \in DOMAIN col : ~IsStr(col[i]) THEN Ok(Num(SumNums(col)))
    ELSE IF \A i \in DOMAIN col : IsStr(col[i]) THEN Ok(Str(Concat(col)))
    ELSE Raise

\* df[c].sum(), lines 125-126: KeyError when the frame has no column c
ColumnSum(d, c) == IF c \in DOMAIN d THEN SeriesSum(d[c]) ELSE Raise

\* f"{v:,.2f}", lines 132-133: ValueError when v is a string
FormatRaises(v) == IsStr(v)

\* the keys of groupby(state_col), sorted; rows with a missing key are left out
RECURSIVE SortedKeys(_)
SortedKeys(keys) ==
    IF keys = {} THEN << >>
    ELSE LET k == CHOOSE x \in keys : \A y \in keys : ~CellLess(y, x)
         IN  <<k>> \o SortedKeys(keys \ {k})

\* groupby(state_col)[total_col].sum() for one key
GroupSum(d, m, key) ==
    SumNums([i \in DOMAIN d[m.total_col] |->
               IF d[m.state_col][i] = key THEN d[m.total_col][i] ELSE NA])

\* groupby(state_col)[total_col].sum(): one <<key, amount>> per key
GroupBySum(d, m) ==
    LET keys == SortedKeys({d[m.state_col][i] : i \in DOMAIN d[m.state_col]} \ {NA})
    IN  [i \in DOMAIN keys |-> <<keys[i], GroupSum(d, m, keys[i])>>]

\* a mutated sort: ascending
RECURSIVE SortValuesAscending(_, _)
SortValuesAscending(groups, ties) ==
    IF groups = << >> THEN << >>
    ELSE LET x    == groups[Len(groups)]
             rest == SortValuesAscending(SubSeq(groups, 1, Len(groups) - 1), ties)
             k    == Cardinality({i \in DOMAIN rest : rest[i][2] <= x[2]})
         IN  SubSeq(rest, 1, k) \o <<x>> \o SubSeq(rest, k + 1, Len(rest))

\* sort_values(ascending=False), line 137.  Its default sort is not a stable
\* one, so the order of equal amounts is left open: ties = "stable" keeps
\* them in key order, ties = "reversed" turns them round.
RECURSIVE SortValuesDescending(_, _)
SortValuesDescending(groups, ties) ==
    IF groups = << >> THEN << >>
    ELSE LET x    == groups[Len(groups)]
             rest == SortValuesDescending(SubSeq(groups, 1, Len(groups) - 1), ties)
             k    == IF ties = "stable"
                     THEN Cardinality({i \in DOMAIN rest : rest[i][2] >= x[2]})
                     ELSE Cardinality({i \in DOMAIN rest : rest[i][2] > x[2]})
         IN  SubSeq(rest, 1, k) \o <<x>> \o SubSeq(rest, k + 1, Len(rest))

\* DataFrame.head(n)
HeadRows(rows, n) == SubSeq(rows, 1, IF Len(rows) < n THEN Len(rows) ELSE n)

\* lines 136-139: the table st.dataframe shows, empty without a state column
StateSales(d, m, ties) ==
    IF m.state_col \in DOMAIN d
    THEN HeadRows(SortValuesDescending(GroupBySum(d, m), ties), TopN)
    ELSE << >>

\* the platform the loop of line 105 takes next, "" when it is through
NextPlatform ==
    LET left == {i \in DOMAIN PlatformOrder :
                    PlatformOrder[i] \in DOMAIN platform_data \ done}
    IN  IF left = {} THEN ""
        ELSE PlatformOrder[CHOOSE i \in left : \A j \in left : i <= j]

Shown(status, sales, tax, breakdown) ==
    [status |-> status, total_sales |-> sales, total_tax |-> tax,
     breakdown |-> breakdown]

ResolverIdle ==
    /\ platform = ""
    /\ file_name = << >>
    /\ df = << >>
    /\ month_num = None
    /\ month_name = None
    /\ colsRead = {}

\* lines 97-98
NoUploads ==
    /\ pc = "summary"
    /\ DOMAIN platform_data = {}
    /\ pc' = "end"
    /\ UNCHANGED <<platform, file_name, df, month_num, month_name, colsRead,
                   platform_data, done, sales_summary, tax_summary, summary,
                   charted>>

\* a mutated else branch: the platform is charted with totals of zero
WarnAppendsZero ==
    /\ pc = "summary"
    /\ NextPlatform # ""
    /\ LET p == NextPlatform
           m == ColumnMapping(p)
       IN  /\ ~HasRequiredColumns(platform_data[p], m)
           /\ summary' = summary @@ (p :> Shown("missing", None, None, << >>))
           /\ sales_summary' = Append(sales_summary, [Platform |-> p, Sales |-> Num(0)])
           /\ tax_summary' = Append(tax_summary, [Platform |-> p, Tax |-> Num(0)])
           /\ done' = done \cup {p}
    /\ UNCHANGED <<pc, platform, file_name, df, month_num, month_name, colsRead,
                   platform_data, charted>>

\* one pass of the loop body through its else branch, lines 105-124 and
\* 147-148: the warning, and nothing added to the two lists
Warn ==
    /\ pc = "summary"
    /\ NextPlatform # ""
    /\ LET p == NextPlatform
           m == ColumnMapping(p)
       IN  /\ ~HasRequiredColumns(platform_data[p], m)
           /\ summary' = summary @@ (p :> Shown("missing", None, None, << >>))
           /\ done' = done \cup {p}
    /\ UNCHANGED <<pc, platform, file_name, df, month_num, month_name, colsRead,
                   platform_data, sales_summary, tax_summary, charted>>

\* one pass of the loop body through lines 105-146 with no exception
Summarize ==
    /\ pc = "summary"
    /\ NextPlatform # ""
    /\ LET p  == NextPlatform
           m  == ColumnMapping(p)
           d  == platform_data[p]
           ts == ColumnSum(d, m.total_col)
           tt == ColumnSum(d, m.tax_col)
       IN  /\ HasRequiredColumns(d, m)
           /\ ts # Raise /\ tt # Raise
           /\ ~FormatRaises(ts[2]) /\ ~FormatRaises(tt[2])
           /\ sales_summary' = Append(sales_summary, [Platform |-> p, Sales |-> ts[2]])
           /\ tax_summary' = Append(tax_summary, [Platform |-> p, Tax |-> tt[2]])
           /\ \E ties \in {"stable", "reversed"} :
                 summary' = summary @@
                     (p :> Shown("present", Some(ts[2][2]), Some(tt[2][2]),
                                 StateSales(d, m, ties)))
           /\ done' = done \cup {p}
    /\ UNCHANGED <<pc, platform, file_name, df, month_num, month_name, colsRead,
                   platform_data, charted>>

\* one pass of the loop body ended by an exception: TypeError or KeyError
\* from a sum (lines 125-126, before the lines that append), or ValueError
\* from a format (lines 132-133, after them).  Nothing catches it; the run
\* of the script ends there.
Crash ==
    /\ pc = "summary"
    /\ NextPlatform # ""
    /\ LET p  == NextPlatform
           m  == ColumnMapping(p)
           d  == platform_data[p]
           ts == ColumnSum(d, m.total_col)
           tt == ColumnSum(d, m.tax_col)
       IN  /\ HasRequiredColumns(d, m)
           /\ \/ /\ ts = Raise \/ tt = Raise
                 /\ UNCHANGED <<sales_summary, tax_summary>>
              \/ /\ ts # Raise /\ tt # Raise
                 /\ FormatRaises(ts[2]) \/ FormatRaises(tt[2])
                 /\ sales_summary' = Append(sales_summary, [Platform |-> p, Sales |-> ts[2]])
                 /\ tax_summary' = Append(tax_summary, [Platform |-> p, Tax |-> tt[2]])
           /\ summary' = summary @@ (p :> Shown("raised", None, None, << >>))
           /\ done' = done \cup {p}
    /\ pc' = "error"
    /\ UNCHANGED <<platform, file_name, df, month_num, month_name, colsRead,
                   platform_data, charted>>

\* lines 151-168: the chart of the two lists, drawn when neither is empty
Chart ==
    /\ pc = "summary"
    /\ DOMAIN platform_data # {}
    /\ NextPlatform = ""
    /\ sales_summary # << >> /\ tax_summary # << >>
    /\ charted' = TRUE
    /\ pc' = "end"
    /\ UNCHANGED <<platform, file_name, df, month_num, month_name, colsRead,
                   platform_data, done, sales_summary, tax_summary, summary>>

\* line 151 with a list that is empty: no chart
SkipChart ==
    /\ pc = "summary"
    /\ DOMAIN platform_data # {}
    /\ NextPlatform = ""
    /\ sales_summary = << >> \/ tax_summary = << >>
    /\ pc' = "end"
    /\ UNCHANGED <<platform, file_name, df, month_num, month_name, colsRead,
                   platform_data, done, sales_summary, tax_summary, summary,
                   charted>>

-----------------------------------------------------------------------------
(* The uploads the summary loop is run on *)

SalesCells == {NA, Num(100), Num(200), Str(<<"a","b","c">>)}

TaxCells == {NA, Num(10), Num(20), Num(30), Str(<<"x">>)}

\* the states of the ranked ledgers, not in alphabetical order
RegionNames ==
    << Str(<<"M","H">>), Str(<<"K","A">>), Str(<<"D","L">>), Str(<<"T","N">>),
       Str(<<"U","P">>), Str(<<"G","J">>), Str(<<"R","J">>), Str(<<"K","L">>),
       Str(<<"P","B">>), Str(<<"A","P">>), Str(<<"B","R">>), Str(<<"A","S">>),
       Str(<<"W","B">>) >>

\* the amounts of the ranked ledgers
AmountCycle == <<Num(50), Num(200), Num(200), Num(10), NA>>

\* the data frame of platform p with these three columns, less the Absent
LedgerOf(p, sales, tax, region) ==
    LET m == ColumnMapping(p)
    IN  Frame([c \in {m.total_col, m.tax_col, m.state_col} |->
                 IF c = m.total_col THEN sales
                 ELSE IF c = m.tax_col THEN tax ELSE region])

\* n rows over the first k states in turn; with gap, the first row has none
RegionCycle(n, k, gap) ==
    [i \in 1..n |-> IF gap /\ i = 1 THEN NA ELSE RegionNames[((i - 1) % k) + 1]]

\* n rows over the amounts, every stride-th one from offset on
AmountRows(n, stride, offset) ==
    [i \in 1..n |-> AmountCycle[(((i - 1) * stride + offset) % Len(AmountCycle)) + 1]]

\* the tax column 10, 20, 30, 10, ...
TaxRows(n) == [i \in 1..n |-> Num(10 * (((i - 1) % 3) + 1))]

\* one platform, the sales or the tax column enumerated freely
FreeLedger(p, pd) ==
    \E n \in 0..MaxRows :
        \/ \E sales  \in AbsentOr(FreeCols(n, SalesCells)),
              tax    \in AbsentOr(ConstCols(n, {Num(10), Str(<<"x">>)}) \cup {TaxRows(n)}),
              region \in {Absent, RegionCycle(n, 2, FALSE)} :
                pd = (p :> LedgerOf(p, sales, tax, region))
        \/ \E sales  \in AbsentOr(ConstCols(n, {Num(100), Str(<<"a","b","c">>)})),
              tax    \in AbsentOr(FreeCols(n, TaxCells)),
              region \in {Absent, RegionCycle(n, 2, FALSE)} :
                pd = (p :> LedgerOf(p, sales, tax, region))

\* one platform, up to MaxPatternRows rows over up to that many states
RankedLedger(p, pd) ==
    \E n \in 0..MaxPatternRows, k \in DOMAIN RegionNames,
       stride \in 1..2, offset \in 0..4, gap \in BOOLEAN :
        pd = (p :> LedgerOf(p, AmountRows(n, stride, offset), TaxRows(n),
                            RegionCycle(n, k, gap)))

\* the ledgers of a run with several platforms
SmallLedgers(p) ==
    { LedgerOf(p, <<Num(100), Num(200), NA>>, <<Num(10), Num(20), Num(30)>>,
               RegionCycle(3, 2, FALSE)),
      LedgerOf(p, <<Num(200)>>, <<NA>>, Absent),
      LedgerOf(p, Absent, <<Num(10)>>, Absent),
      LedgerOf(p, <<Num(100)>>, Absent, RegionCycle(1, 1, FALSE)),
      LedgerOf(p, Absent, Absent, RegionCycle(1, 1, FALSE)),
      LedgerOf(p, <<Num(100), Str(<<"a","b","c">>)>>, <<Num(10), Num(20)>>, Absent) }

\* the data frame of a slot nothing was uploaded to
NotUploaded == [c \in {"not uploaded"} |-> << >>]

\* platform_data after lines 79-92: the slots something was uploaded to
PlatformData(a, f, m) ==
    LET slots == [p \in {"Amazon", "Flipkart", "Meesho"} |->
                    IF p = "Amazon" THEN a ELSE IF p = "Flipkart" THEN f ELSE m]
    IN  [p \in {q \in DOMAIN slots : slots[q] # NotUploaded} |-> slots[p]]

InitSummary ==
    /\ pc = "summary"
    /\ ResolverIdle
    /\ \/ \E p \in {"Amazon", "Flipkart", "Meesho"} :
            FreeLedger(p, platform_data) \/ RankedLedger(p, platform_data)
       \/ \E a \in {NotUploaded} \cup SmallLedgers("Amazon"),
             f \in {NotUploaded} \cup SmallLedgers("Flipkart"),
             m \in {NotUploaded} \cup SmallLedgers("Meesho") :
                platform_data = PlatformData(a, f, m)
    /\ done = {}
    /\ sales_summary = << >>
    /\ tax_summary = << >>
    /\ summary = << >>
    /\ charted = FALSE

NextSummary == NoUploads \/ Warn \/ Summarize \/ Crash \/ Chart \/ SkipChart

SpecSummary == InitSummary /\ [][NextSummary]_vars

-----------------------------------------------------------------------------
(* Properties of the resolver, checked under Spec *)

Resolved == pc = "resolved"

\* the month codes that occur in the upper-cased file name
CodesIn(name) == {i \in 1..12 : IsSubstr(months[i], Upper(name))}

NoCode == CodesIn(file_name) = {}

Result(n) == month_num = Some(n) /\ month_name = Some(months[n])

Absentee == month_num = None /\ month_name = None

\* v is the value Series.mode() lists first for col: no non-missing value
\* is more frequent, and none as frequent sorts before it
IsFirstMode(col, v) ==
    /\ ~IsNA(v)
    /\ \E i \in DOMAIN col : col[i] = v
    /\ \A i \in DOMAIN col :
          IsNA(col[i]) \/ Count(col, col[i]) < Count(col, v)
                       \/ (Count(col, col[i]) = Count(col, v) /\ ~CellLess(col[i], v))

\* the cells of col that are a YYYY-MM-DD date, as months
DateMonths(col) ==
    SelectSeq([i \in DOMAIN col |-> Num(ToDatetimeMonth(col[i]))],
              LAMBDA c : c[2] # 0)

DecJan == <<"d","e","c","_","j","a","n",".","c","s","v">>

Mar05 == Str(<<"2","0","2","4","-","0","3","-","0","5">>)

\* C1: when the upper-cased file name contains a month code, extract_month
\* returns the first code of the calendar that occurs in it, with its
\* 1-based index, and reads no column of the ledger.
C1_FilenamePrecedence ==
    Resolved =>
        LET codes == CodesIn(file_name)
        IN  codes # {} =>
                \E i \in codes :
                    /\ \A j \in codes : i <= j
                    /\ Result(i)
                    /\ colsRead = {}

\* C1 witness: dec_jan.csv, whose text has DEC before JAN, on a Meesho
\* ledger whose month_number says 7, resolved to JAN.
C1_Witness ==
    /\ Resolved
    /\ file_name = DecJan
    /\ platform = "meesho"
    /\ "month_number" \in DOMAIN df
    /\ df["month_number"] = <<Num(7), Num(7), Num(5)>>
    /\ Result(1)

\* C2: extract_month returns (None, None) or a pair (n, months[n-1]) with n
\* in 1..12, whatever the file name, the ledger and the platform.
C2_WellFormedMonth ==
    Resolved => (Absentee \/ \E n \in 1..12 : Result(n))

\* C7: Meesho, no code in the file name, a month_number column whose first
\* mode is n in 1..12: the result is (n, months[n-1]) and order_date is not
\* read.
C7_MeeshoMonthNumber ==
    (Resolved /\ platform = "meesho" /\ NoCode /\ "month_number" \in DOMAIN df) =>
        \A n \in 1..12 :
            IsFirstMode(df["month_number"], Num(n)) =>
                Result(n) /\ "order_date" \notin colsRead

\* C7 witness: month_number mostly 7, once 5, beside an order_date column
\* of March dates, resolved to JUL.
C7_Witness ==
    /\ Resolved
    /\ platform = "meesho"
    /\ NoCode
    /\ "month_number" \in DOMAIN df
    /\ "order_date" \in DOMAIN df
    /\ df["month_number"] = <<Num(7), Num(5), Num(7)>>
    /\ df["order_date"] = <<Mar05, Mar05, Mar05>>
    /\ Result(7)

\* s reads as an abbreviated month name (the m-th), a dash and four digits
IsPeriodOf(s, m) ==
    /\ Len(s) = 8
    /\ Upper(SubSeq(s, 1, 3)) = months[m]
    /\ s[4] = "-"
    /\ \A i \in 5..8 : IsDigit(s[i])

\* C8: Flipkart, no code in the file name: with an Amended Period column
\* whose first mode reads as month m the result is (m, months[m-1]); in
\* every other case it is (None, None); no other column is read.
C8_FlipkartAmendedPeriod ==
    (Resolved /\ platform = "flipkart" /\ NoCode) =>
        LET parsed ==
                IF "Amended Period" \in DOMAIN df
                THEN {m \in 1..12 : \E i \in DOMAIN df["Amended Period"] :
                        /\ IsFirstMode(df["Amended Period"], df["Amended Period"][i])
                        /\ IsPeriodOf(df["Amended Period"][i][2], m)}
                ELSE {}
        IN  /\ \A m \in parsed : Result(m)
            /\ parsed = {} => Absentee
            /\ colsRead \subseteq {"Amended Period"}

\* C8 witness: Amended Period mostly JUL-2024, once Apr-2025, beside an
\* Order Date column of March dates, resolved to JUL.
C8_Witness ==
    /\ Resolved
    /\ platform = "flipkart"
    /\ NoCode
    /\ "Amended Period" \in DOMAIN df
    /\ "Order Date" \in DOMAIN df
    /\ df["Amended Period"] =
          << Str(<<"J","U","L","-","2","0","2","4">>),
             Str(<<"A","p","r","-","2","0","2","5">>),
             Str(<<"J","U","L","-","2","0","2","4">>) >>
    /\ Result(7)

\* the month_number column gives no month: it has no value, or its first
\* mode is no number, or a number that months[n - 1] has no entry for
NoMonthNumber(col) ==
    \/ \A i \in DOMAIN col : IsNA(col[i])
    \/ \E i \in DOMAIN col :
          /\ IsFirstMode(col, col[i])
          /\ \/ IsStr(col[i]) /\ ~AllDigits(col[i][2])
             \/ IsNum(col[i]) /\ col[i][2] \notin -11..12

\* the month_number column gives no valid month: as above, or a number
\* outside 1..12
NoValidMonthNumber(col) ==
    \/ NoMonthNumber(col)
    \/ \E i \in DOMAIN col :
          IsFirstMode(col, col[i]) /\ IsNum(col[i]) /\ col[i][2] \notin 1..12

\* C9 as stated: Meesho, no code in the file name, a month_number column
\* that yields no valid month and an order_date column with dates: the
\* result is the modal month of order_date.
C9_FallThroughToOrderDate ==
    (/\ Resolved /\ platform = "meesho" /\ NoCode
     /\ "month_number" \in DOMAIN df
     /\ "order_date" \in DOMAIN df
     /\ NoValidMonthNumber(df["month_number"])
     /\ DateMonths(df["order_date"]) # << >>) =>
        \E m \in 1..12 :
            IsFirstMode(DateMonths(df["order_date"]), Num(m)) /\ Result(m)

\* C9 amended: Meesho, no code in the file name, a month_number column:
\* order_date is never read, and when month_number has no value, or its
\* mode is not a number, or months[n - 1] raises, the result is
\* (None, None) whatever order_date holds.
C9_NoFallThrough ==
    (Resolved /\ platform = "meesho" /\ NoCode /\ "month_number" \in DOMAIN df) =>
        /\ colsRead = {"month_number"}
        /\ NoMonthNumber(df["month_number"]) => Absentee

\* C9 witness: month_number is 13 throughout, order_date is March
\* throughout, and the result is (None, None).
C9_Witness ==
    /\ Resolved
    /\ platform = "meesho"
    /\ NoCode
    /\ "month_number" \in DOMAIN df
    /\ "order_date" \in DOMAIN df
    /\ df["month_number"] = <<Num(13), Num(13)>>
    /\ df["order_date"] = <<Mar05, Mar05>>
    /\ Absentee

\* the first of Invoice Date, Order Date, Shipment Date the ledger has
FirstDateColumn(d) ==
    IF "Invoice Date" \in DOMAIN d THEN Some("Invoice Date")
    ELSE IF "Order Date" \in DOMAIN d THEN Some("Order Date")
    ELSE IF "Shipment Date" \in DOMAIN d THEN Some("Shipment Date")
    ELSE None

\* C10: Amazon, no code in the file name: only the first existing column of
\* Invoice Date, Order Date, Shipment Date is read; the result is the most
\* frequent month of its entries that are dates, and (None, None) only when
\* there is no such column or no such entry.
C10_AmazonDateColumn ==
    (Resolved /\ platform = "amazon" /\ NoCode) =>
        LET col == FirstDateColumn(df)
        IN  IF col = None THEN Absentee /\ colsRead = {}
            ELSE /\ colsRead = {col[1]}
                 /\ IF DateMonths(df[col[1]]) = << >> THEN Absentee
                    ELSE \E m \in 1..12 :
                            /\ IsFirstMode(DateMonths(df[col[1]]), Num(m))
                            /\ Result(m)

-----------------------------------------------------------------------------
(* Properties of the summary loop, checked under SpecSummary *)

HasSales(p) == ColumnMapping(p).total_col \in DOMAIN platform_data[p]

HasTax(p) == ColumnMapping(p).tax_col \in DOMAIN platform_data[p]

HasRegion(p) == ColumnMapping(p).state_col \in DOMAIN platform_data[p]

SalesColumn(p) == platform_data[p][ColumnMapping(p).total_col]

TaxColumn(p) == platform_data[p][ColumnMapping(p).tax_col]

RegionColumn(p) == platform_data[p][ColumnMapping(p).state_col]

\* the numbers of col at the rows of the set rows, added up
RECURSIVE RowsTotal(_, _)
RowsTotal(col, rows) ==
    IF rows = {} THEN 0
    ELSE LET i == CHOOSE j \in rows : TRUE
         IN  (IF IsNum(col[i]) THEN col[i][2] ELSE 0) + RowsTotal(col, rows \ {i})

ColumnTotal(col) == RowsTotal(col, DOMAIN col)

InList(list, p) == \E i \in DOMAIN list : list[i].Platform = p

\* C3 as stated: a platform gets the missing-columns warning exactly when
\* its ledger has neither the sales nor the tax column.
C3_MissingWhenBothAbsent ==
    \A p \in DOMAIN summary :
        summary[p].status = "missing" <=> (~HasSales(p) /\ ~HasTax(p))

\* C3 amended: a platform gets the missing-columns warning, with no totals
\* and no entry in either list, exactly when its ledger lacks the sales
\* column or the tax column.
C3_MissingWhenEitherAbsent ==
    \A p \in DOMAIN summary :
        /\ summary[p].status = "missing" <=> (~HasSales(p) \/ ~HasTax(p))
        /\ summary[p].status = "missing" =>
              /\ summary[p].total_sales = None
              /\ summary[p].total_tax = None
              /\ ~InList(sales_summary, p)
              /\ ~InList(tax_summary, p)

\* C3 witness: a ledger with the sales column and without the tax column
\* was warned about.
C3_Witness ==
    \E p \in DOMAIN summary :
        /\ HasSales(p) /\ ~HasTax(p)
        /\ Len(SalesColumn(p)) > 0
        /\ summary[p].status = "missing"

\* C4: when a platform has both columns its totals are computed, no cell
\* raising an error: total_sales and total_tax are the sums of the numbers
\* of the two columns, a missing or non-numeric cell counting 0.
C4_TotalsCountBadCellsAsZero ==
    \A p \in DOMAIN summary :
        (HasSales(p) /\ HasTax(p)) =>
            /\ summary[p].status = "present"
            /\ summary[p].total_sales = Some(ColumnTotal(SalesColumn(p)))
            /\ summary[p].total_tax = Some(ColumnTotal(TaxColumn(p)))

\* the states of a ledger: the values of its state column, less the missing
RegionsOf(p) == {RegionColumn(p)[i] : i \in DOMAIN RegionColumn(p)} \ {NA}

\* the sales of the rows of one state
RegionTotal(p, r) ==
    RowsTotal(SalesColumn(p), {i \in DOMAIN RegionColumn(p) : RegionColumn(p)[i] = r})

\* C5: with a state column the breakdown of a summarized platform has
\* min(10, number of states) rows, one per state, each with the sum of the
\* sales of that state, in non-increasing order of amount, and no state left
\* out has more than the last row; without a state column the breakdown is
\* empty and the totals are there.
C5_RegionRanking ==
    \A p \in DOMAIN summary :
        summary[p].status = "present" =>
            LET b == summary[p].breakdown
            IN  /\ summary[p].total_sales # None
                /\ summary[p].total_tax # None
                /\ IF HasRegion(p)
                   THEN /\ Len(b) = IF Cardinality(RegionsOf(p)) < 10
                                    THEN Cardinality(RegionsOf(p)) ELSE 10
                        /\ \A i \in DOMAIN b :
                              /\ b[i][1] \in RegionsOf(p)
                              /\ b[i][2] = RegionTotal(p, b[i][1])
                        /\ \A i, j \in DOMAIN b : i < j =>
                              /\ b[i][1] # b[j][1]
                              /\ b[i][2] >= b[j][2]
                        /\ \A r \in RegionsOf(p) \ {b[i][1] : i \in DOMAIN b} :
                              RegionTotal(p, r) <= b[Len(b)][2]
                   ELSE b = << >>

\* C5 witness: a ledger of more than 10 states, ranked: 10 rows, two of them
\* with equal amounts, the last one above a state that was left out.
C5_Witness ==
    \E p \in DOMAIN summary :
        /\ summary[p].status = "present"
        /\ HasRegion(p)
        /\ Cardinality(RegionsOf(p)) > 10
        /\ Len(summary[p].breakdown) = 10
        /\ summary[p].breakdown[1][2] = summary[p].breakdown[2][2]
        /\ \E r \in RegionsOf(p) :
              RegionTotal(p, r) < summary[p].breakdown[10][2]

\* the platforms of a list, in the order of the list
PlatformsOf(list) == [i \in DOMAIN list |-> list[i].Platform]

\* the summarized platforms, in the order of the upload slots
RECURSIVE PresentFrom(_)
PresentFrom(i) ==
    IF i > Len(PlatformOrder) THEN << >>
    ELSE (IF /\ PlatformOrder[i] \in DOMAIN summary
             /\ summary[PlatformOrder[i]].status = "present"
          THEN <<PlatformOrder[i]>> ELSE << >>) \o PresentFrom(i + 1)

\* C6: in a run no exception has ended, the sales list and the tax list
\* hold, in the order of the upload slots, one entry for each platform that
\* was summarized and none for a platform that was warned about, the same
\* platform at the same position of both; an entry holds the sums of that
\* platform's own two columns, whatever the other ledgers are.
C6_CrossPlatformLists ==
    pc # "error" =>
        /\ PlatformsOf(sales_summary) = PresentFrom(1)
        /\ PlatformsOf(tax_summary) = PresentFrom(1)
        /\ \A i \in DOMAIN sales_summary :
              sales_summary[i].Sales =
                  Num(ColumnTotal(SalesColumn(sales_summary[i].Platform)))
        /\ \A i \in DOMAIN tax_summary :
              tax_summary[i].Tax =
                  Num(ColumnTotal(TaxColumn(tax_summary[i].Platform)))
        /\ (pc = "end" /\ DOMAIN platform_data # {}) =>
              /\ DOMAIN summary = DOMAIN platform_data
              /\ charted <=> PresentFrom(1) # << >>

\* C6 witness: three uploads, Flipkart's without its columns: the chart is
\* drawn of Amazon and Meesho, with the totals 300 and 60 of each.
C6_Witness ==
    /\ pc = "end"
    /\ charted
    /\ DOMAIN platform_data = {"Amazon", "Flipkart", "Meesho"}
    /\ summary["Flipkart"].status = "missing"
    /\ sales_summary = << [Platform |-> "Amazon", Sales |-> Num(300)],
                          [Platform |-> "Meesho", Sales |-> Num(300)] >>
    /\ tax_summary = << [Platform |-> "Amazon", Tax |-> Num(60)],
                        [Platform |-> "Meesho", Tax |-> Num(60)] >>

=============================================================================
